---- MODULE Spec2Model ----
(***************************************************************************)
(* Proctoring and exam session engine of proctor-guardian-exam.            *)
(*                                                                         *)
(*   ps      the ProctorService singleton (src/services/ProctorService.ts  *)
(*           and its rewrites) together with the browser objects it owns:  *)
(*           DOM listeners, interval timers, media streams, the <video>    *)
(*           element's srcObject.                                          *)
(*   tasks   the suspended async continuations of the service (each await  *)
(*           is a suspension point; every step between two awaits is one   *)
(*           atomic action, as on the single-threaded event loop).         *)
(*   page    the React state of pages/student/Exam.tsx; cbSnap and timer   *)
(*           are the render snapshots captured by the closures the page    *)
(*           hands to the service and to setInterval.                      *)
(*   results the Result Store (localStorage, ExamService.saveExamResult).  *)
(***************************************************************************)
EXTENDS Integers, Sequences, FiniteSets, TLC

\* ------------------------------------------------------------------ bounds
MaxViolations == 2      \* cap on the length of the service's violation log
MaxResults == 2         \* cap on the number of saved results
MaxStreams == 2         \* cap on the number of streams with live tracks at one time
MaxTasks == 2           \* cap on the number of suspended continuations
MaxInPlace == 3         \* cap on the consecutive in-place recoveries that are counted
MaxVisits == 2          \* cap on the number of visits of the exam page
MaxFaces == 2           \* cap on the number of faces estimateFaces reports
MaxExams == 2           \* cap on the number of exams in the exam store
MaxClock == 2           \* cap on the reading of Date.now()

\* ----------------------------------------------------------------- fixtures
\* The exam under test: two questions, two options each, one minute.
NoAnswer == "none"
Options == {"a", "b"}
ExamFixture ==
  [ questions |-> << [id |-> "q1", correctOptionId |-> "a"],
                     [id |-> "q2", correctOptionId |-> "b"] >>,
    timeLimit |-> 1,
    id |-> "1" ]

\* the students; CurrentUser is the one who sits the exam
Students == {"s1", "s2"}
CurrentUser == "s1"
QuestionIds == { ExamFixture.questions[i].id : i \in 1..Len(ExamFixture.questions) }

Variants == {"basic", "fallback", "awaited", "model"}
ViolationTypes ==
  {"tab_switch", "browser_minimize", "multiple_people", "mobile_detected", "looking_away"}
ListenerTypes == {"visibilitychange", "focus", "blur"}

VARIABLES
  variant,     \* which rewrite of ProctorService is loaded
  ps,          \* service fields + owned browser objects
  tasks,       \* sequence of suspended continuations
  page,        \* React state of the Exam page
  cbSnap,      \* render snapshot captured by the handleViolation closure given to initialize
  timer,       \* countdown interval: on/off and the render snapshot its closure captured
  pendingEnd,  \* scheduled setTimeout(handleExamEnd, 2000) not yet fired, in scheduling
               \* order: the render snapshot the closure of each captured
  navTimer,    \* -1: no navigate timeout pending; else countdown ticks since it was scheduled
  results,     \* saved ExamResult records, in save order
  stopDone,    \* history: stop() ran on an active service with no initialize in flight, none called since
  violated,    \* history: handleViolation was called while the exam was in progress
  initOutcome, \* history: what the initialize call that resolved in the last step returned,
               \* what the detection that resolved in the last step found,
               \* whether the sink produced frames when the last step's check detected
  exams,       \* the exam store (localStorage proctorAppExams), in insertion order
  now,         \* the reading of Date.now()
  held,        \* the list a caller of getViolations() holds, if any
  hist         \* history: recordViolation calls and callback deliveries since the last
               \* initialize call, NotStarted -> InProgress transitions, whether
               \* the eligibility effect turned a visit away,
               \* consecutive health-check ticks that launched reinitializeVideo,
               \* focus-monitor events and detection errors handled without recording,
               \* cause and returned value of the last initialize call when it failed

vars ==
  << variant, ps, tasks, page, cbSnap, timer, pendingEnd, navTimer, results, stopDone,
     violated, initOutcome, exams, now, held, hist >>

\* what the exam session itself never writes
outside == << exams, now, held >>
pageVars == << page, cbSnap, timer, pendingEnd, navTimer, results >>

\* ------------------------------------------------------- ProctorService state
PsInit ==
  [ videoElement |-> FALSE,          \* this.videoElement # null
    onViolationCallback |-> FALSE,   \* this.onViolationCallback # null
    violationEvents |-> << >>,
    active |-> FALSE,
    checkIntervalId |-> FALSE,       \* this.checkIntervalId # null
    detectionIntervalId |-> FALSE,   \* this.detectionIntervalId # null (model rewrite)
    mediaStream |-> 0,               \* 0 = null, else stream id
    model |-> FALSE,                 \* this.model # null (model rewrite)
    \* browser objects
    listeners |-> {},                \* registered DOM listeners
    liveChecks |-> 0,                \* live 2 s setInterval timers
    liveDetects |-> 0,               \* live 1 s detection setInterval timers
    liveStreams |-> {},              \* acquired streams whose tracks were not stopped
    srcObject |-> 0 ]                \* srcObject of the <video> element given to initialize

\* track.stop() on every track of stream id
StopTracks(s, id) == [s EXCEPT !.liveStreams = @ \ {id}]

\* cleanupExistingStream
cleanupExistingStream(s) ==
  LET s1 == IF variant = "model" /\ s.detectionIntervalId
              THEN [s EXCEPT !.detectionIntervalId = FALSE, !.liveDetects = @ - 1]
              ELSE s
      s2 == IF s1.mediaStream # 0
              THEN [StopTracks(s1, s1.mediaStream) EXCEPT !.mediaStream = 0]
              ELSE s1
  IN  IF s2.videoElement /\ s2.srcObject # 0 THEN [s2 EXCEPT !.srcObject = 0] ELSE s2

\* startPeriodicMonitoring
startPeriodicMonitoring(s) ==
  LET s1 == IF s.checkIntervalId
              THEN [s EXCEPT !.liveChecks = @ - 1, !.checkIntervalId = FALSE]
              ELSE s
  IN  [s1 EXCEPT !.checkIntervalId = TRUE, !.liveChecks = @ + 1]

\* startDetection (model rewrite): the guard and the setInterval
startDetection(s) ==
  IF ~s.model \/ ~s.videoElement \/ s.detectionIntervalId
    THEN s
    ELSE [s EXCEPT !.detectionIntervalId = TRUE, !.liveDetects = @ + 1]

\* the tail of initialize / initializeWithFallback: listeners, monitoring, active
InitializeTail(s) ==
  [startPeriodicMonitoring([s EXCEPT !.listeners = @ \cup ListenerTypes])
     EXCEPT !.active = TRUE]

\* stop(), body after the guard, per rewrite
StopBody(s) ==
  LET s1 == IF s.checkIntervalId
              THEN [s EXCEPT !.liveChecks = @ - 1, !.checkIntervalId = FALSE]
              ELSE s
      s2 == IF variant = "model" /\ s1.detectionIntervalId
              THEN [s1 EXCEPT !.detectionIntervalId = FALSE, !.liveDetects = @ - 1]
              ELSE s1
      s3 == IF variant = "basic"
              THEN IF s2.videoElement /\ s2.srcObject # 0
                     THEN [StopTracks(s2, s2.srcObject) EXCEPT !.srcObject = 0]
                     ELSE s2
              ELSE cleanupExistingStream(s2)
  IN  [s3 EXCEPT !.listeners = @ \ ListenerTypes, !.active = FALSE, !.videoElement = FALSE]

StopUnguarded(s) == StopBody(s)

\* stop()
stop(s) == IF ~s.active THEN s ELSE StopBody(s)

RecordViolationPrepended(s, type) == [s EXCEPT !.violationEvents = << type >> \o @]

RecordViolationDeduplicated(s, type) ==
  IF Len(s.violationEvents) > 0 /\ s.violationEvents[Len(s.violationEvents)] = type
    THEN s
    ELSE [s EXCEPT !.violationEvents = Append(@, type)]

\* recordViolation: the push; the callback is applied by the action that records
recordViolation(s, type) == [s EXCEPT !.violationEvents = Append(@, type)]

\* getViolations
getViolations(s) == s.violationEvents

\* no list returned by getViolations is held
NoList == [internal |-> FALSE, items |-> << >>, none |-> TRUE]

ReturnedArrayAliased(s) == [internal |-> TRUE, items |-> << >>, none |-> FALSE]

\* getViolations: the array `[...this.violationEvents]` it returns is a new object
\* (internal: it is the service's own array; items: its elements when it is not)
ReturnedArray(s) == [internal |-> FALSE, items |-> s.violationEvents, none |-> FALSE]

\* handleVisibilityChange: the service after a visibilitychange event, with
\* document.hidden as given (the callback is applied by the action)
visibilityChangeHandler(s, hidden) ==
  IF hidden /\ s.active THEN recordViolation(s, "tab_switch") ELSE s

BlurHandlerUnguarded(s) == recordViolation(s, "browser_minimize")

\* handleBlur: the service after a window blur event
blurHandler(s) == IF s.active THEN recordViolation(s, "browser_minimize") ELSE s

FocusHandlerRecording(s) == IF s.active THEN recordViolation(s, "tab_switch") ELSE s

\* handleFocus: the service after a window focus event (it only logs)
focusHandler(s) == s


\* ------------------------------------------------------------ Exam page state
SecondsPerMinute == 60

PageInit ==
  [ mounted |-> TRUE,
    examStarted |-> FALSE,
    examFailed |-> FALSE,
    answers |-> [q \in QuestionIds |-> NoAnswer],
    remainingTime |-> ExamFixture.timeLimit * SecondsPerMinute,
    currentQuestionIndex |-> 0,
    violations |-> << >>,
    cameraActive |-> FALSE,
    visit |-> 1 ]                    \* which mount of the component this is

\* what a closure created in a render sees of that render's state
Snapshot(p) ==
  [ examFailed |-> p.examFailed, answers |-> p.answers, violations |-> p.violations,
    visit |-> p.visit ]

TimerOff == [on |-> FALSE, snap |-> Snapshot(PageInit)]

RenderIgnoringFailure(old, new) ==
  IF /\ old.examStarted = new.examStarted
     /\ old.remainingTime = new.remainingTime
     /\ old.mounted = new.mounted
    THEN timer
    ELSE IF new.mounted /\ new.examStarted /\ new.remainingTime > 0
           THEN [on |-> TRUE, snap |-> Snapshot(new)]
           ELSE TimerOff

\* the countdown effect: re-run when one of its dependencies changed (or on unmount)
Render(old, new) ==
  IF /\ old.examStarted = new.examStarted
     /\ old.remainingTime = new.remainingTime
     /\ old.examFailed = new.examFailed
     /\ old.mounted = new.mounted
    THEN timer
    ELSE IF new.mounted /\ new.examStarted /\ new.remainingTime > 0 /\ ~new.examFailed
           THEN [on |-> TRUE, snap |-> Snapshot(new)]
           ELSE TimerOff

\* handleExamEnd: the forEach counting correct answers
RECURSIVE CountCorrect(_, _)
CountCorrect(answers, n) ==
  IF n = 0 THEN 0
  ELSE CountCorrect(answers, n - 1)
       + (IF answers[ExamFixture.questions[n].id] = ExamFixture.questions[n].correctOptionId
            THEN 1 ELSE 0)

ScoreIgnoringFailure(snap) == CountCorrect(snap.answers, Len(ExamFixture.questions))

\* handleExamEnd: score as saved
ScoreOf(snap) ==
  IF snap.examFailed THEN 0 ELSE CountCorrect(snap.answers, Len(ExamFixture.questions))

StatusAlwaysFailed(snap) == "failed"

\* handleExamEnd: status as saved
StatusOf(snap) == IF snap.examFailed THEN "failed" ELSE "completed"

\* handleExamEnd: the record handed to saveExamResult (trigger is history only)
ExamResultOf(snap, s, p, trigger) ==
  [ examId |-> ExamFixture.id,
    studentId |-> CurrentUser,
    status |-> StatusOf(snap),
    score |-> ScoreOf(snap),
    totalQuestions |-> Len(ExamFixture.questions),
    answers |-> snap.answers,
    violations |-> snap.violations \o getViolations(s),
    \* history: what ended the exam, the page's answers at that moment, and whether
    \* a violation had been delivered to the running exam
    trigger |-> trigger,
    liveAnswers |-> p.answers,
    afterViolation |-> violated ]

\* ------------------------------------------------------------- ExamService
\* the id given to a new record: Date.now().toString()
NewId(clock) == ToString(clock)

\* the first record of the store with the given id (Array.prototype.find), or Null
Null == [id |-> "null"]
FindById(store, id) ==
  IF \E k \in DOMAIN store : store[k].id = id
    THEN store[CHOOSE k \in DOMAIN store :
                 /\ store[k].id = id
                 /\ \A j \in 1..(k - 1) : store[j].id # id]
    ELSE Null

\* getExamById
getExamById(store, examId) == FindById(store, examId)

\* getResultById
getResultById(store, resultId) == FindById(store, resultId)

\* createExam: the new exam is the last of the returned store
createExam(store, exam, clock) ==
  Append(store, [id |-> NewId(clock), createdAt |-> clock] @@ exam)

\* updateExam: {...old, ...updates} replaces the first exam with the id, if any
updateExam(store, examId, updates) ==
  IF \E k \in DOMAIN store : store[k].id = examId
    THEN LET k == CHOOSE k \in DOMAIN store :
                    /\ store[k].id = examId
                    /\ \A j \in 1..(k - 1) : store[j].id # examId
         IN  [store EXCEPT ![k] = updates @@ store[k]]
    ELSE store

\* deleteExam: allExams.filter(exam => exam.id !== examId)
RECURSIVE deleteExam(_, _)
deleteExam(store, examId) ==
  IF store = << >> THEN << >>
  ELSE (IF Head(store).id # examId THEN << Head(store) >> ELSE << >>)
       \o deleteExam(Tail(store), examId)

\* saveExamResult: the new result is the last of the returned store
saveExamResult(store, r, clock) == Append(store, [id |-> NewId(clock)] @@ r)

HasStudentTakenAnyExam(store, studentId, examId) ==
  \E k \in DOMAIN store : store[k].studentId = studentId

\* hasStudentTakenExam
hasStudentTakenExam(store, studentId, examId) ==
  \E k \in DOMAIN store : store[k].studentId = studentId /\ store[k].examId = examId

\* an initialize call is suspended at one of its awaits
InitializeInFlight ==
  \E i \in DOMAIN tasks : tasks[i].fn \in {"initialize", "initializeWithFallback"}

\* handleExamEnd with the closure snapshot snap, on service state s and page state p
handleExamEnd(s, p, snap, trigger) ==
  /\ Len(results) < MaxResults
  /\ ps' = stop(s)
  /\ stopDone' = (stopDone \/ (s.active /\ ~InitializeInFlight))
  /\ page' = IF p.mounted /\ snap.visit = p.visit
               THEN [p EXCEPT !.cameraActive = FALSE]
               ELSE p
  /\ results' = saveExamResult(results, ExamResultOf(snap, s, p, trigger), now)
  /\ navTimer' = IF navTimer = -1 THEN 0 ELSE navTimer

\* handleViolation, called synchronously by recordViolation through the stored callback
PageAfterViolation(type) ==
  IF page.mounted /\ cbSnap.visit = page.visit
    THEN [page EXCEPT !.violations = Append(@, type),
                      !.examFailed = IF ~cbSnap.examFailed THEN TRUE ELSE @]
    ELSE page

\* handleStartExam without its `if (!proctorInitialized) return`
PageAfterInitUnchecked(result) ==
  IF page.mounted
    THEN [page EXCEPT !.cameraActive = TRUE, !.examStarted = TRUE]
    ELSE page

\* handleStartExam after `await proctorService.initialize(...)`
PageAfterInit(result) ==
  IF result /\ page.mounted
    THEN [page EXCEPT !.cameraActive = TRUE, !.examStarted = TRUE]
    ELSE page

RemoveAt(seq, i) == SubSeq(seq, 1, i - 1) \o SubSeq(seq, i + 1, Len(seq))

\* no initialize call resolved in this step
\* no detection result arrived in this step
NoDetection == [faces |-> -1, rotation |-> 0]

NoOutcome ==
  [result |-> "none", gum |-> 0, rej |-> 0, cause |-> "none", detected |-> NoDetection,
   frames |-> "none"]

\* a step in which no initialize call resolves and no history is added
Quiet == initOutcome' = NoOutcome /\ UNCHANGED hist

\* one service step: new service state, new task list, new page state, timeouts scheduled
Step(s, ts, p, ends) ==
  /\ ps' = s
  /\ tasks' = ts
  /\ page' = p
  /\ timer' = Render(page, p)
  /\ pendingEnd' = IF ends > 0 THEN Append(pendingEnd, cbSnap) ELSE pendingEnd
  /\ UNCHANGED << variant, outside, cbSnap, navTimer, results, stopDone >>

\* a step of the service after which n consecutive in-place recoveries were launched
CommitWith(s, ts, p, ends, n, outcome) ==
  /\ Step(s, ts, p, ends)
  /\ UNCHANGED violated
  /\ initOutcome' = outcome
  /\ hist' = [hist EXCEPT !.inPlace = n]

CommitAt(s, ts, p, ends, n) == CommitWith(s, ts, p, ends, n, NoOutcome)

Commit(s, ts, p, ends) == CommitAt(s, ts, p, ends, hist.inPlace)

\* a step of the service that records a violation of the given type
RecordWith(s, ts, type, n, outcome) ==
  /\ IF s.onViolationCallback
       THEN /\ Step(recordViolation(s, type), ts, PageAfterViolation(type),
                    IF ~cbSnap.examFailed THEN 1 ELSE 0)
            /\ violated' = (violated \/ (/\ page.mounted /\ page.examStarted
                                           /\ cbSnap.visit = page.visit))
       ELSE Step(recordViolation(s, type), ts, page, 0) /\ UNCHANGED violated
  /\ initOutcome' = outcome
  /\ hist' = [hist EXCEPT !.recorded = Append(@, type),
                          !.delivered = IF s.onViolationCallback THEN Append(@, type) ELSE @,
                          !.inPlace = n]

RecordAt(s, ts, type, n) == RecordWith(s, ts, type, n, NoOutcome)

Record(s, ts, type) == RecordAt(s, ts, type, hist.inPlace)

\* a step of the service on an event that is handled without recording a violation
Observe(s, ts, event) ==
  /\ Len(s.violationEvents) <= MaxViolations
  /\ Step(s, ts, page, 0)
  /\ UNCHANGED violated
  /\ initOutcome' = NoOutcome
  /\ hist' = [hist EXCEPT !.observed = @ \cup {event}]

\* what made the initialize call of task t resolve false: the model did not load,
\* getUserMedia rejected, or the sink could not be bound or played
FailureCause(t, result, rejected) ==
  IF result THEN "none"
  ELSE IF t.pc = "model" THEN "model"
  ELSE IF rejected THEN "camera"
  ELSE "sink"

\* the initialize call of task i resolves with result, leaving the task list ts;
\* handleStartExam continues. rejected: the getUserMedia request rejected in this step
ResolveWith(s, ts, i, result, rejected) ==
  /\ Step(s, ts, IF tasks[i].visit = page.visit THEN PageAfterInit(result) ELSE page, 0)
  /\ UNCHANGED violated
  /\ initOutcome' = [result |-> IF result THEN "true" ELSE "false",
                     gum |-> tasks[i].gum,
                     rej |-> tasks[i].rej + (IF rejected THEN 1 ELSE 0),
                     cause |-> FailureCause(tasks[i], result, rejected),
                     detected |-> NoDetection,
                     frames |-> "none"]
  /\ hist' = [hist EXCEPT !.starts =
                IF /\ tasks[i].visit = page.visit
                   /\ ~page.examStarted /\ PageAfterInit(result).examStarted
                  THEN @ + 1 ELSE @,
                          !.failure = [cause |-> FailureCause(tasks[i], result, rejected),
                                       value |-> IF result THEN "none" ELSE "false"]]

Resolve(s, i, result) == ResolveWith(s, RemoveAt(tasks, i), i, result, FALSE)

\* initialize resolves false because the getUserMedia request of task i rejected
ResolveRejected(s, i) == ResolveWith(s, RemoveAt(tasks, i), i, FALSE, TRUE)

\* a recovery function returns: its awaiting initialize continues, or nothing does
Return(s, i, ret) ==
  IF ret
    THEN Resolve(InitializeTail(s), i, TRUE)
    ELSE Commit(s, RemoveAt(tasks, i), page, 0)

\* gum, rej: getUserMedia requests made / rejected by the initialize call the task runs
\* visit: the mount of the page whose handler started the call
Task(fn, pc, ret) ==
  [fn |-> fn, pc |-> pc, ret |-> ret, gum |-> 0, rej |-> 0, visit |-> page.visit]
Moved(t, fn, pc, ret) == [t EXCEPT !.fn = fn, !.pc = pc, !.ret = ret]
At(i, fn, pc) == tasks[i].fn = fn /\ tasks[i].pc = pc

\* getUserMedia resolves: a new stream with live tracks (named by the least id that
\* no field and no live track still refers to)
NewStream(s) ==
  LET used == s.liveStreams \cup {s.mediaStream, s.srcObject}
  IN  CHOOSE n \in 1..(MaxStreams + 2) : n \notin used /\ \A m \in 1..(n - 1) : m \in used
CanAcquire(s) == Cardinality(s.liveStreams) < MaxStreams
Acquire(s) == [s EXCEPT !.liveStreams = @ \cup {NewStream(s)}]


\* ------------------------------------------------- handleStartExam / initialize
\* Start Exam click: stop what the <video> element shows, then call initialize up
\* to its first await (the model rewrite awaits the model before the camera).
handleStartExam ==
  /\ page.mounted /\ ~page.examStarted
  /\ Len(tasks) < MaxTasks
  /\ LET s0 == IF ps.srcObject # 0
                 THEN [StopTracks(ps, ps.srcObject) EXCEPT !.srcObject = 0]
                 ELSE ps
         s1 == [s0 EXCEPT !.videoElement = TRUE,
                          !.onViolationCallback = TRUE,
                          !.violationEvents = << >>]
         s2 == IF variant \in {"basic", "model"} THEN s1 ELSE cleanupExistingStream(s1)
         t  == [Task("initialize", IF variant = "model" THEN "model" ELSE "gum", FALSE)
                  EXCEPT !.gum = IF variant = "model" THEN 0 ELSE 1]
     IN  /\ ps' = s2
         /\ tasks' = Append(tasks, t)
  /\ cbSnap' = Snapshot(page)
  /\ stopDone' = FALSE
  /\ initOutcome' = NoOutcome
  /\ hist' = [hist EXCEPT !.recorded = << >>, !.delivered = << >>, !.inPlace = 0]
  /\ UNCHANGED << variant, outside, page, timer, pendingEnd, navTimer, results, violated >>

\* model rewrite: tf.ready() and blazeface.load() resolve
ModelLoaded ==
  \E i \in DOMAIN tasks :
    /\ At(i, "initialize", "model")
    /\ Commit(cleanupExistingStream([ps EXCEPT !.model = TRUE]),
              [tasks EXCEPT ![i].pc = "gum", ![i].gum = 1], page, 0)

\* model rewrite: loading the model rejects; initialize returns false
ModelLoadFailed ==
  \E i \in DOMAIN tasks :
    /\ At(i, "initialize", "model")
    /\ Resolve(ps, i, FALSE)

\* initialize: getUserMedia resolves
InitGumResolve ==
  \E i \in DOMAIN tasks :
    /\ At(i, "initialize", "gum")
    /\ CanAcquire(ps)
    /\ LET n == NewStream(ps)
           a == Acquire(ps)
       IN  CASE variant = "basic" ->
                  IF ~a.videoElement
                    THEN Resolve(a, i, FALSE)
                    ELSE Commit([a EXCEPT !.srcObject = n],
                                [tasks EXCEPT ![i].pc = "play"], page, 0)
             [] variant = "fallback" ->
                  IF ~a.videoElement
                    \* TypeError -> catch -> initializeWithFallback returns false at once
                    THEN Resolve([a EXCEPT !.mediaStream = n], i, FALSE)
                    ELSE Commit([a EXCEPT !.mediaStream = n, !.srcObject = n],
                                [tasks EXCEPT ![i].pc = "play"], page, 0)
             [] OTHER ->
                  IF ~a.videoElement
                    THEN Resolve([a EXCEPT !.mediaStream = n], i, FALSE)
                    ELSE Commit([a EXCEPT !.mediaStream = n, !.srcObject = n],
                                [tasks EXCEPT ![i].pc = "play"], page, 0)

\* initialize: getUserMedia rejects
InitGumReject ==
  \E i \in DOMAIN tasks :
    /\ At(i, "initialize", "gum")
    /\ IF variant = "fallback" /\ ps.videoElement
         THEN Commit(cleanupExistingStream(ps),
                     [tasks EXCEPT ![i] = [Task("initializeWithFallback", "gum", FALSE)
                                             EXCEPT !.gum = tasks[i].gum + 1,
                                                    !.rej = tasks[i].rej + 1]],
                     page, 0)
         ELSE ResolveRejected(ps, i)

\* reinitializeVideo of the awaited and model rewrites, entered from task i
CallReinitializeVideo(s, i, ret) ==
  IF ~s.videoElement \/ s.mediaStream = 0
    THEN Return(s, i, ret)
    ELSE Commit([s EXCEPT !.srcObject = s.mediaStream],
                [tasks EXCEPT ![i] = Moved(tasks[i], "reinitializeVideo", "play", ret)], page, 0)

\* reinitializeVideo of the fallback rewrite: returns at once, leaving a 500 ms timeout
ScheduleReinitializeVideo(s, ts) ==
  IF ~s.videoElement \/ s.mediaStream = 0
    THEN ts
    ELSE Append(ts, Task("reinitializeVideo", "timeout", FALSE))

\* initialize: play() resolves
InitPlayResolve ==
  \E i \in DOMAIN tasks :
    /\ At(i, "initialize", "play")
    /\ Resolve(InitializeTail(IF variant = "model" THEN startDetection(ps) ELSE ps), i, TRUE)

\* initialize: play() rejects
InitPlayReject ==
  \E i \in DOMAIN tasks :
    /\ At(i, "initialize", "play")
    /\ CASE variant = "basic" -> Resolve(InitializeTail(ps), i, TRUE)
         [] variant = "model" -> CallReinitializeVideo(ps, i, TRUE)
         [] OTHER -> Commit(ps, [tasks EXCEPT ![i].pc = "sleep"], page, 0)


\* initialize: the 500 ms pause after a failed play() is over
InitSleepDone ==
  \E i \in DOMAIN tasks :
    /\ At(i, "initialize", "sleep")
    /\ IF variant = "fallback"
         THEN ResolveWith(InitializeTail(ps),
                          ScheduleReinitializeVideo(ps, RemoveAt(tasks, i)), i, TRUE, FALSE)
         ELSE CallReinitializeVideo(ps, i, TRUE)

\* initializeWithFallback: getUserMedia resolves
FallbackGumResolve ==
  \E i \in DOMAIN tasks :
    /\ At(i, "initializeWithFallback", "gum")
    /\ CanAcquire(ps)
    /\ LET n == NewStream(ps)
           a == [Acquire(ps) EXCEPT !.mediaStream = n]
       IN  IF ~a.videoElement
             THEN Resolve(a, i, FALSE)
             ELSE Commit([a EXCEPT !.srcObject = n], [tasks EXCEPT ![i].pc = "play"], page, 0)

\* initializeWithFallback: getUserMedia rejects
FallbackGumReject ==
  \E i \in DOMAIN tasks :
    /\ At(i, "initializeWithFallback", "gum")
    /\ ResolveRejected(ps, i)

\* initializeWithFallback: play() resolves
FallbackPlayResolve ==
  \E i \in DOMAIN tasks :
    /\ At(i, "initializeWithFallback", "play")
    /\ Resolve(InitializeTail(ps), i, TRUE)

\* initializeWithFallback: play() rejects
FallbackPlayReject ==
  \E i \in DOMAIN tasks :
    /\ At(i, "initializeWithFallback", "play")
    /\ Resolve(ps, i, FALSE)

\* ------------------------------------------------------------------ recovery
\* restartStream entered from task i: up to its getUserMedia await
CallRestartStream(s, i, ret) ==
  IF ~s.videoElement
    THEN Return(s, i, ret)
    ELSE CommitAt(cleanupExistingStream(s),
                  [tasks EXCEPT ![i] = Moved(tasks[i], "restartStream", "gum", ret)], page, 0, 0)

\* fallback rewrite: the 500 ms timeout of reinitializeVideo fires
ReinitTimeoutFire ==
  \E i \in DOMAIN tasks :
    /\ At(i, "reinitializeVideo", "timeout")
    /\ IF ps.videoElement /\ ps.mediaStream # 0
         THEN Commit([ps EXCEPT !.srcObject = ps.mediaStream],
                     [tasks EXCEPT ![i].pc = "play"], page, 0)
         ELSE Commit(ps, RemoveAt(tasks, i), page, 0)

\* reinitializeVideo: the retried play() resolves
ReinitPlayResolve ==
  \E i \in DOMAIN tasks :
    /\ At(i, "reinitializeVideo", "play")
    /\ Return(ps, i, tasks[i].ret)

\* reinitializeVideo: the retried play() rejects
ReinitPlayReject ==
  \E i \in DOMAIN tasks :
    /\ At(i, "reinitializeVideo", "play")
    /\ IF variant = "fallback"
         THEN Commit(ps, [tasks EXCEPT ![i].pc = "restartTimeout"], page, 0)
         ELSE CallRestartStream(ps, i, tasks[i].ret)

\* fallback rewrite: the 1 s timeout before restartStream fires
RestartTimeoutFire ==
  \E i \in DOMAIN tasks :
    /\ At(i, "reinitializeVideo", "restartTimeout")
    /\ CallRestartStream(ps, i, FALSE)

\* restartStream: getUserMedia resolves
RestartGumResolve ==
  \E i \in DOMAIN tasks :
    /\ At(i, "restartStream", "gum")
    /\ CanAcquire(ps)
    /\ LET n == NewStream(ps)
           a == [Acquire(ps) EXCEPT !.mediaStream = n]
       IN  IF ~a.videoElement
             \* TypeError on this.videoElement.srcObject, swallowed by the catch
             THEN Return(a, i, tasks[i].ret)
             ELSE Commit([a EXCEPT !.srcObject = n], [tasks EXCEPT ![i].pc = "play"], page, 0)

\* restartStream: getUserMedia rejects (caught and logged)
RestartGumReject ==
  \E i \in DOMAIN tasks :
    /\ At(i, "restartStream", "gum")
    /\ Return(ps, i, tasks[i].ret)

\* restartStream: play() settles; a rejection is caught and logged
RestartPlaySettle ==
  \E i \in DOMAIN tasks :
    /\ At(i, "restartStream", "play")
    /\ Return(ps, i, tasks[i].ret)


\* ------------------------------------------------------- periodic monitoring
\* checkVideoStatus: the recoveries one tick launches, as <<service state, task list>>.
\* A stream from getUserMedia always carries its video track, so the branch for an
\* empty track list is not taken; paused and zeroDims are read from the <video> element.
checkVideoStatus(s, ts, paused, zeroDims) ==
  IF variant = "basic" \/ ~s.active \/ ~s.videoElement \/ s.mediaStream = 0
    THEN << s, ts >>
    ELSE IF variant = "fallback"
      THEN IF zeroDims
             THEN << s, ScheduleReinitializeVideo(s, ts) >>
             ELSE IF paused
                    THEN << s, Append(ts, Task("checkVideoStatus", "play", FALSE)) >>
                    ELSE << s, ts >>
      ELSE LET ts1 == IF paused
                        THEN Append(ts, Task("checkVideoStatus", "play", FALSE))
                        ELSE ts
           IN  IF zeroDims
                 THEN << [s EXCEPT !.srcObject = s.mediaStream],
                         Append(ts1, Task("reinitializeVideo", "play", FALSE)) >>
                 ELSE << s, ts1 >>

\* whether a <video> element that is paused, or has videoWidth or videoHeight 0,
\* is producing frames
SinkFrames(paused, zeroDims) == IF paused \/ zeroDims THEN "stalled" ELSE "producing"

\* the 2 s interval fires: checkForViolations (v is what the random draw detects,
\* "none" for the 97 % case), then checkVideoStatus
PeriodicCheck(v, paused, zeroDims) ==
  /\ ps.liveChecks > 0
  /\ LET detect == v # "none" /\ ps.active /\ ps.videoElement
         after == checkVideoStatus(ps, tasks, paused, zeroDims)
         \* history: the tick looked at the sink / launched reinitializeVideo itself
         looked == variant # "basic" /\ ps.active /\ ps.videoElement /\ ps.mediaStream # 0
         n == IF looked /\ zeroDims THEN hist.inPlace + 1
              ELSE IF looked /\ ~paused THEN 0 ELSE hist.inPlace
     IN  /\ Len(after[2]) <= MaxTasks
         /\ n <= MaxInPlace
         /\ detect => Len(ps.violationEvents) < MaxViolations
         /\ IF detect
              THEN RecordWith(after[1], after[2], v, n,
                              [NoOutcome EXCEPT !.frames = SinkFrames(paused, zeroDims)])
              ELSE CommitAt(after[1], after[2], page, 0, n)

\* the play() started by checkVideoStatus resolves
StatusPlayResolve ==
  \E i \in DOMAIN tasks :
    /\ At(i, "checkVideoStatus", "play")
    /\ Commit(ps, RemoveAt(tasks, i), page, 0)

\* the play() started by checkVideoStatus rejects: reinitializeVideo
StatusPlayReject ==
  \E i \in DOMAIN tasks :
    /\ At(i, "checkVideoStatus", "play")
    /\ IF variant = "fallback"
         THEN Commit(ps, ScheduleReinitializeVideo(ps, RemoveAt(tasks, i)), page, 0)
         ELSE CallReinitializeVideo(ps, i, FALSE)

\* model rewrite: the 1 s detection interval fires and awaits estimateFaces
DetectionTick ==
  /\ ps.liveDetects > 0
  /\ ps.videoElement /\ ps.model
  /\ Len(tasks) < MaxTasks
  /\ Commit(ps, Append(tasks, Task("startDetection", "estimateFaces", FALSE)), page, 0)

\* the head rotation, in degrees, beyond which one face counts as looking away
RotationThreshold == 30

\* values of estimateHeadRotation, in degrees (|atan2| lies in 0..180)
Rotations == {0, 29, 30, 31, 180}

DetectionViolationAtThreshold(faces, rotation) ==
  IF faces = 0 THEN "looking_away"
  ELSE IF faces > 1 THEN "multiple_people"
  ELSE IF rotation >= RotationThreshold THEN "looking_away" ELSE "none"

\* what a detection result records: the number of faces found, and the estimated
\* rotation of the face when there is exactly one
DetectionViolation(faces, rotation) ==
  IF faces = 0 THEN "looking_away"
  ELSE IF faces > 1 THEN "multiple_people"
  ELSE IF rotation > RotationThreshold THEN "looking_away" ELSE "none"

\* model rewrite: estimateFaces resolves (the rotation is estimated for one face only)
DetectResolve ==
  \E i \in DOMAIN tasks, faces \in 0..MaxFaces, rotation \in Rotations :
    /\ At(i, "startDetection", "estimateFaces")
    /\ faces # 1 => rotation = 0
    /\ LET v == DetectionViolation(faces, rotation)
           outcome == [NoOutcome EXCEPT !.detected = [faces |-> faces, rotation |-> rotation]]
       IN  IF v = "none"
             THEN CommitWith(ps, RemoveAt(tasks, i), page, 0, hist.inPlace, outcome)
             ELSE /\ Len(ps.violationEvents) < MaxViolations
                  /\ RecordWith(ps, RemoveAt(tasks, i), v, hist.inPlace, outcome)

DetectionFailedStopping(s) == stop(s)

\* model rewrite: the catch of the detection tick (it only logs the error)
detectionFailed(s) == s

\* model rewrite: estimateFaces rejects
DetectReject ==
  \E i \in DOMAIN tasks :
    /\ At(i, "startDetection", "estimateFaces")
    /\ Observe(detectionFailed(ps), RemoveAt(tasks, i), "detection_error")

\* ------------------------------------------------------------ focus monitor
\* visibilitychange fires with document.hidden
handleVisibilityChange ==
  /\ "visibilitychange" \in ps.listeners
  /\ visibilityChangeHandler(ps, TRUE) # ps
  /\ Len(ps.violationEvents) < MaxViolations
  /\ Record(ps, tasks, "tab_switch")

\* window blur fires
handleBlur ==
  /\ "blur" \in ps.listeners
  /\ blurHandler(ps) # ps
  /\ Len(ps.violationEvents) < MaxViolations
  /\ Record(ps, tasks, "browser_minimize")

\* visibilitychange fires with the document visible again
handleVisibilityShown ==
  /\ "visibilitychange" \in ps.listeners
  /\ Observe(visibilityChangeHandler(ps, FALSE), tasks, "visible")

\* window focus fires
handleFocus ==
  /\ "focus" \in ps.listeners
  /\ Observe(focusHandler(ps), tasks, "focus")

\* ------------------------------------------------------------- page actions
\* the countdown interval fires: the setRemainingTime updater
Tick ==
  /\ timer.on
  /\ navTimer # 2
  /\ IF page.remainingTime <= 1
       THEN /\ handleExamEnd(ps, [page EXCEPT !.remainingTime = 0], timer.snap, "countdown")
            /\ timer' = TimerOff
            /\ Quiet /\ UNCHANGED << variant, outside, tasks, cbSnap, pendingEnd, violated >>
       ELSE /\ page' = [page EXCEPT !.remainingTime = @ - 1]
            /\ timer' = Render(page, page')
            /\ navTimer' = IF navTimer >= 0 THEN navTimer + 1 ELSE navTimer
            /\ Quiet /\ UNCHANGED << variant, outside, ps, tasks, cbSnap, pendingEnd, results, stopDone, violated >>

\* an option of the current question is selected
handleAnswerChange(optionId) ==
  /\ page.mounted /\ page.examStarted
  /\ page' = [page EXCEPT
       !.answers[ExamFixture.questions[page.currentQuestionIndex + 1].id] = optionId]
  /\ Quiet /\ UNCHANGED << variant, outside, ps, tasks, cbSnap, timer, pendingEnd, navTimer, results, stopDone, violated >>

Min(a, b) == IF a < b THEN a ELSE b
Max(a, b) == IF a > b THEN a ELSE b

NextIndexUnclamped(prev) == prev + 1

\* goToNextQuestion: the setCurrentQuestionIndex updater
NextIndex(prev) == Min(prev + 1, Len(ExamFixture.questions) - 1)

\* goToPreviousQuestion: the setCurrentQuestionIndex updater
PreviousIndex(prev) == Max(prev - 1, 0)

\* Next click (the button is rendered on every question but the last)
goToNextQuestion ==
  /\ page.mounted /\ page.examStarted
  /\ page.currentQuestionIndex # Len(ExamFixture.questions) - 1
  /\ page' = [page EXCEPT !.currentQuestionIndex = NextIndex(@)]
  /\ Quiet /\ UNCHANGED << variant, outside, ps, tasks, cbSnap, timer, pendingEnd, navTimer, results, stopDone, violated >>

goToPreviousQuestion ==
  /\ page.mounted /\ page.examStarted
  /\ page.currentQuestionIndex # 0
  /\ page' = [page EXCEPT !.currentQuestionIndex = PreviousIndex(@)]
  /\ Quiet /\ UNCHANGED << variant, outside, ps, tasks, cbSnap, timer, pendingEnd, navTimer, results, stopDone, violated >>

\* Submit Exam click (the button of the last question): handleExamEnd of this render
SubmitExam ==
  /\ page.mounted /\ page.examStarted
  /\ page.currentQuestionIndex = Len(ExamFixture.questions) - 1
  /\ handleExamEnd(ps, page, Snapshot(page), "submit")
  /\ Quiet /\ UNCHANGED << variant, outside, tasks, cbSnap, timer, pendingEnd, violated >>

\* the setTimeout(handleExamEnd, 2000) of handleViolation fires
ViolationTimeout ==
  /\ pendingEnd # << >>
  /\ pendingEnd' = Tail(pendingEnd)
  /\ handleExamEnd(ps, page, Head(pendingEnd), "violation")
  /\ Quiet /\ UNCHANGED << variant, outside, tasks, cbSnap, timer, violated >>

\* the page unmounts: the cleanup effects run (clearInterval, proctorService.stop())
\* and the component's state is discarded (the two flags keep what the session was)
Unmount ==
  /\ ps' = stop(ps)
  /\ stopDone' = (stopDone \/ (ps.active /\ ~InitializeInFlight))
  /\ page' = [PageInit EXCEPT !.mounted = FALSE,
                              !.examStarted = page.examStarted,
                              !.examFailed = page.examFailed,
                              !.visit = page.visit]
  /\ timer' = TimerOff
  /\ navTimer' = -1
  /\ Quiet /\ UNCHANGED << variant, outside, tasks, cbSnap, pendingEnd, results, violated >>

\* the student leaves the exam page (browser back)
Leave ==
  /\ page.mounted
  /\ Unmount

\* the setTimeout(navigate('/student/results'), 2000) of handleExamEnd fires
Navigate ==
  /\ navTimer >= (IF timer.on THEN 1 ELSE 0)
  /\ IF page.mounted
       THEN Unmount
       ELSE /\ navTimer' = -1
            /\ Quiet /\ UNCHANGED << variant, outside, ps, tasks, page, cbSnap, timer, pendingEnd, results, stopDone, violated >>

\* the eligibility effect's hasStudentTakenExam(currentUser.id, exam.id)
AlreadyTaken == hasStudentTakenExam(results, CurrentUser, ExamFixture.id)

\* the student opens the exam page again: the component mounts with fresh state; the
\* eligibility effect navigates away at once when the exam was taken, and the
\* unmount cleanup calls proctorService.stop()
Visit ==
  /\ ~page.mounted
  /\ page.visit < MaxVisits
  /\ LET fresh == [PageInit EXCEPT !.visit = page.visit + 1]
     IN  IF AlreadyTaken
           THEN /\ page' = [fresh EXCEPT !.mounted = FALSE]
                /\ ps' = stop(ps)
                /\ stopDone' = (stopDone \/ (ps.active /\ ~InitializeInFlight))
           ELSE /\ page' = fresh
                /\ UNCHANGED << ps, stopDone >>
  /\ timer' = TimerOff
  /\ hist' = [hist EXCEPT !.rejected = @ \/ AlreadyTaken]
  /\ initOutcome' = NoOutcome
  /\ UNCHANGED << variant, outside, tasks, cbSnap, pendingEnd, navTimer, results, violated >>

\* ------------------------------------------------- callers of getViolations
\* the elements of the list the caller holds
HeldItems == IF held.internal THEN ps.violationEvents ELSE held.items

\* a caller calls getViolations() and keeps the returned list
CallGetViolations ==
  /\ held' = ReturnedArray(ps)
  /\ Quiet
  /\ UNCHANGED << variant, ps, tasks, page, cbSnap, timer, pendingEnd, navTimer, results,
                  stopDone, violated, exams, now >>

\* the caller changes the list it holds into newItems
CallerMutates(newItems) ==
  /\ ~held.none
  /\ Len(newItems) <= MaxViolations
  /\ IF held.internal
       THEN ps' = [ps EXCEPT !.violationEvents = newItems] /\ UNCHANGED held
       ELSE held' = [held EXCEPT !.items = newItems] /\ UNCHANGED ps
  /\ initOutcome' = NoOutcome
  /\ hist' = [hist EXCEPT !.observed = @ \cup {"list_mutated"}]
  /\ UNCHANGED << variant, tasks, page, cbSnap, timer, pendingEnd, navTimer, results,
                  stopDone, violated, exams, now >>

\* list.push(event)
CallerPush ==
  /\ Len(HeldItems) < MaxViolations
  /\ CallerMutates(Append(HeldItems, "mobile_detected"))

\* list.pop()
CallerPop ==
  /\ HeldItems # << >>
  /\ CallerMutates(SubSeq(HeldItems, 1, Len(HeldItems) - 1))

\* list[0] = event
CallerReplace ==
  /\ HeldItems # << >>
  /\ HeldItems[1] # "mobile_detected"
  /\ CallerMutates([HeldItems EXCEPT ![1] = "mobile_detected"])

\* ------------------------------------------------ callers of ExamService
\* the ids Date.now().toString() can produce, and the titles teachers give
ExamIds == { NewId(c) : c \in 1..MaxClock }
Titles == {"t1", "t2"}

\* what a call of ExamService leaves alone
StoreFrame ==
  /\ Quiet
  /\ UNCHANGED << variant, ps, tasks, page, cbSnap, timer, pendingEnd, navTimer, stopDone,
                  violated, held >>

\* a millisecond passes
ClockAdvances ==
  /\ now < MaxClock
  /\ now' = now + 1
  /\ StoreFrame /\ UNCHANGED << exams, results >>

\* a teacher creates an exam
CreateExam ==
  /\ Len(exams) < MaxExams
  /\ \E title \in Titles :
       exams' = createExam(exams, [title |-> title, teacherId |-> "teacher"], now)
  /\ StoreFrame /\ UNCHANGED << now, results >>

\* a teacher renames an exam
UpdateExam ==
  /\ \E examId \in ExamIds, title \in Titles :
       exams' = updateExam(exams, examId, [title |-> title])
  /\ StoreFrame /\ UNCHANGED << now, results >>

\* a teacher deletes an exam
DeleteExam ==
  /\ \E examId \in ExamIds : exams' = deleteExam(exams, examId)
  /\ StoreFrame /\ UNCHANGED << now, results >>

\* an exam of some student ends and its result is saved
SaveExamResult ==
  /\ Len(results) < MaxResults
  /\ \E studentId \in Students, examId \in ExamIds, status \in {"completed", "failed"} :
       results' = saveExamResult(results,
                                 [studentId |-> studentId, examId |-> examId,
                                  status |-> status], now)
  /\ StoreFrame /\ UNCHANGED << now, exams >>

\* ------------------------------------------------------------ specifications
InitCommon ==
  /\ ps = PsInit
  /\ tasks = << >>
  /\ page = PageInit
  /\ cbSnap = Snapshot(PageInit)
  /\ timer = TimerOff
  /\ pendingEnd = << >>
  /\ navTimer = -1
  /\ results = << >>
  /\ stopDone = FALSE
  /\ violated = FALSE
  /\ initOutcome = NoOutcome
  /\ exams = << >>
  /\ now = 1
  /\ held = NoList
  /\ hist = [recorded |-> << >>, delivered |-> << >>, starts |-> 0, inPlace |-> 0,
             rejected |-> FALSE, observed |-> {},
             failure |-> [cause |-> "none", value |-> "none"]]

\* the exam session, with the service Exam.tsx imports and a camera that plays
Init == variant = "fallback" /\ InitCommon

Next ==
  \/ (tasks = << >> /\ handleStartExam)
  \/ InitGumResolve
  \/ InitGumReject
  \/ InitPlayResolve
  \/ FallbackGumResolve
  \/ FallbackGumReject
  \/ FallbackPlayResolve
  \/ FallbackPlayReject
  \/ \E v \in {"none", "multiple_people", "mobile_detected", "looking_away"} :
       PeriodicCheck(v, FALSE, FALSE)
  \/ handleVisibilityChange
  \/ handleBlur
  \/ Tick
  \/ \E o \in Options : handleAnswerChange(o)
  \/ goToNextQuestion
  \/ goToPreviousQuestion
  \/ SubmitExam
  \/ ViolationTimeout
  \/ Leave
  \/ Navigate

Spec == Init /\ [][Next]_vars

\* the service under every rewrite, with a camera that may stall or fail
InitProctor == variant \in Variants /\ InitCommon

ProctorSteps ==
  \/ ModelLoaded
  \/ ModelLoadFailed
  \/ InitGumResolve
  \/ InitGumReject
  \/ InitPlayResolve
  \/ InitPlayReject
  \/ InitSleepDone
  \/ FallbackGumResolve
  \/ FallbackGumReject
  \/ FallbackPlayResolve
  \/ FallbackPlayReject
  \/ ReinitTimeoutFire
  \/ ReinitPlayResolve
  \/ ReinitPlayReject
  \/ RestartTimeoutFire
  \/ RestartGumResolve
  \/ RestartGumReject
  \/ RestartPlaySettle
  \/ StatusPlayResolve
  \/ StatusPlayReject
  \/ DetectReject
  \/ DetectResolve
  \/ \E v \in {"none", "multiple_people", "mobile_detected", "looking_away"},
        paused \in BOOLEAN, zeroDims \in BOOLEAN :
       PeriodicCheck(v, paused, zeroDims)
  \/ DetectionTick
  \/ handleVisibilityChange
  \/ handleBlur
  \/ ViolationTimeout
  \/ Leave
  \/ Navigate

NextProctor == handleStartExam \/ ProctorSteps

SpecProctor == InitProctor /\ [][NextProctor]_vars

\* the same with one Start Exam click at a time: none while a call is suspended
SequentialStart == tasks = << >> /\ handleStartExam

NextSequential == SequentialStart \/ ProctorSteps

SpecSequential == InitProctor /\ [][NextSequential]_vars


\* the exam page over several visits, with the service Exam.tsx imports and a
\* camera that is granted and plays
NextVisits ==
  \/ Visit
  \/ SequentialStart
  \/ InitGumResolve
  \/ InitPlayResolve
  \/ handleBlur
  \/ ViolationTimeout
  \/ goToNextQuestion
  \/ SubmitExam
  \/ Leave
  \/ Navigate

SpecVisits == Init /\ [][NextVisits]_vars

\* the focus monitor of every rewrite: the document is hidden and shown, the
\* window loses and regains focus, before, during and after the exam
NextFocus ==
  \/ SequentialStart
  \/ ModelLoaded
  \/ InitGumResolve
  \/ InitPlayResolve
  \/ handleVisibilityChange
  \/ handleVisibilityShown
  \/ handleBlur
  \/ handleFocus
  \/ ViolationTimeout
  \/ Leave
  \/ Navigate

SpecFocus == InitProctor /\ [][NextFocus]_vars

\* a caller that keeps and changes the lists getViolations() returns, during an
\* exam in which focus violations are recorded
NextCaller ==
  \/ SequentialStart
  \/ InitGumResolve
  \/ InitPlayResolve
  \/ handleVisibilityChange
  \/ handleBlur
  \/ CallGetViolations
  \/ CallerPush
  \/ CallerPop
  \/ CallerReplace
  \/ ViolationTimeout
  \/ Leave
  \/ Navigate

SpecCaller == Init /\ [][NextCaller]_vars

\* the exam session with the browser's timers firing: a countdown interval that
\* is installed ticks, a timeout that is scheduled fires, and a pending promise
\* of the camera settles
NextLive ==
  \/ SequentialStart
  \/ InitGumResolve
  \/ InitPlayResolve
  \/ handleBlur
  \/ Tick
  \/ goToNextQuestion
  \/ SubmitExam
  \/ ViolationTimeout
  \/ Leave
  \/ Navigate

SpecLive ==
  /\ Init
  /\ [][NextLive]_vars
  /\ WF_vars(Tick)
  /\ WF_vars(ViolationTimeout)
  /\ WF_vars(Navigate)
  /\ WF_vars(InitGumResolve)
  /\ WF_vars(InitPlayResolve)

\* ExamService alone: teachers and students calling it in any order
NextStore ==
  \/ ClockAdvances
  \/ CreateExam
  \/ UpdateExam
  \/ DeleteExam
  \/ SaveExamResult

SpecStore == Init /\ [][NextStore]_vars

\* every rewrite with a sink that never produces a frame: each play() rejects and
\* each health check finds the video paused
NextStalled ==
  \/ SequentialStart
  \/ ModelLoaded
  \/ InitGumResolve
  \/ InitPlayReject
  \/ InitSleepDone
  \/ ReinitTimeoutFire
  \/ ReinitPlayReject
  \/ RestartTimeoutFire
  \/ RestartGumReject
  \/ StatusPlayReject
  \/ \E v \in {"none", "multiple_people", "mobile_detected", "looking_away"},
        zeroDims \in BOOLEAN :
       PeriodicCheck(v, TRUE, zeroDims)
  \/ ViolationTimeout
  \/ Leave
  \/ Navigate

SpecStalled == InitProctor /\ [][NextStalled]_vars

\* ------------------------------------------------------------------- claims
\* C1: within one exam session the terminal effects of handleExamEnd run at most
\* once, so the result store never holds two results for the session.
C1_AtMostOneResult == Len(results) <= 1

\* C2: once a violation was delivered to handleViolation while the exam was in
\* progress, every result persisted afterwards has status 'failed' and score 0.
C2_ViolationPersistsFailed ==
  \A k \in DOMAIN results :
    results[k].afterViolation => results[k].status = "failed" /\ results[k].score = 0

\* The session status derived from examStarted, examFailed and the persisted status.
SessionStatus ==
  IF results # << >>
    THEN IF results[Len(results)].status = "failed" THEN "Failed" ELSE "Completed"
    ELSE IF page.examFailed THEN "Failed"
    ELSE IF page.examStarted THEN "InProgress"
    ELSE "NotStarted"

\* C3: the session status only moves NotStarted -> InProgress -> Completed or
\* Failed; once it is terminal no later step records or persists another status.
C3_StatusMonotonic ==
  [][ /\ SessionStatus \in {"Completed", "Failed"} => SessionStatus' = SessionStatus
      /\ SessionStatus = "InProgress" => SessionStatus' # "NotStarted" ]_vars

\* C4: a result persisted as 'completed' (no violation involved) carries the score
\* of, and the same map as, the page's answers at the moment the exam ended.
C4_CompletedScoresLiveAnswers ==
  \A k \in DOMAIN results :
    (results[k].status = "completed" /\ ~results[k].afterViolation) =>
      /\ results[k].answers = results[k].liveAnswers
      /\ results[k].score =
           CountCorrect(results[k].liveAnswers, Len(ExamFixture.questions))

\* C5: every result persisted with status 'failed' has score 0, whatever its
\* answers map contains.
C5_FailedScoresZero ==
  \A k \in DOMAIN results : results[k].status = "failed" => results[k].score = 0

\* C5 witness: a failed result whose answers map holds a correct answer.
C5_Witness ==
  \E k \in DOMAIN results :
    /\ results[k].status = "failed"
    /\ CountCorrect(results[k].answers, Len(ExamFixture.questions)) > 0

NothingAnswered(answers) == \A q \in QuestionIds : answers[q] = NoAnswer

\* C6: with no violation and no submission, the countdown reaching 0 persists a
\* result with status 'completed' (never 'failed'), with score 0 when no question
\* was answered.
C6_TimeoutCompletes ==
  /\ \A k \in DOMAIN results :
       results[k].trigger = "countdown" =>
         /\ results[k].status = "completed"
         /\ NothingAnswered(results[k].liveAnswers) => results[k].score = 0
  /\ (page.mounted /\ page.examStarted /\ page.remainingTime = 0) =>
       \E k \in DOMAIN results : results[k].trigger = "countdown"

\* C6 witness: the countdown ended an exam nobody answered, violated or submitted.
C6_Witness ==
  /\ Len(results) = 1
  /\ results[1].trigger = "countdown"
  /\ ~results[1].afterViolation
  /\ NothingAnswered(results[1].liveAnswers)
  /\ page.remainingTime = 0


\* C7: after stop() has returned on an active service with no initialize call in
\* flight (and the service was not started again), no periodic schedule of the
\* service is live and the service holds no stream with un-stopped tracks, also
\* when a suspended recovery resumes afterwards.
C7_StopReleasesAll ==
  (stopDone /\ ~ps.active) =>
    /\ ps.liveChecks = 0
    /\ ps.liveDetects = 0
    /\ ps.mediaStream \notin ps.liveStreams

\* C8: listeners are registered only while the service is active, and none remain
\* once the page has unmounted, also when initialize resumes after that stop().
C8_ListenersOnlyWhileActive ==
  /\ ps.listeners # {} => ps.active
  /\ ~page.mounted => ps.listeners = {}

\* C9: at every moment at most one acquired stream has un-stopped tracks.
C9_AtMostOneLiveStream == Cardinality(ps.liveStreams) <= 1

\* C10: from every reachable service state stop() twice leaves the same state as
\* stop() once, and stop() on an inactive service changes nothing.
C10_StopIdempotent ==
  /\ stop(stop(ps)) = stop(ps)
  /\ ~ps.active => stop(ps) = ps

\* C10 witness: stop() ran when the exam ended and again when the page unmounted,
\* on a service that was active and still refers to a stream, an interval or an element.
C10_Witness ==
  /\ results # << >> /\ ~page.mounted
  /\ stopDone /\ ~ps.active
  /\ (ps.mediaStream # 0 \/ ps.checkIntervalId \/ ps.videoElement)


\* the stream the service holds: this.mediaStream, or the sink's srcObject in the
\* rewrite that keeps no mediaStream field
HeldStream(s) == IF variant = "basic" THEN s.srcObject ELSE s.mediaStream

\* C11: when initialize has just resolved true and the exam is in progress, the
\* service holds a stream with un-stopped tracks and that stream is bound to the
\* video sink, also after the recovery path ran inside initialize.
C11_StartedHoldsLiveStream ==
  (initOutcome.result = "true" /\ page.mounted /\ page.examStarted) =>
    /\ HeldStream(ps) \in ps.liveStreams
    /\ ps.srcObject = HeldStream(ps)


\* C12: when initialize has just resolved false, no stream acquired by the attempt
\* has un-stopped tracks and the video sink is detached.
C12_FailedStartReleasesStream ==
  initOutcome.result = "false" => (ps.liveStreams = {} /\ ps.srcObject = 0)


C14_SingleFallbackRequest ==
  /\ \A i \in DOMAIN tasks : tasks[i].gum <= 2
  /\ (variant = "fallback" /\ initOutcome.result = "false" /\ initOutcome.rej >= 1) =>
       (initOutcome.gum = 2 /\ initOutcome.rej = 2)


\* C15: while the sink stays unhealthy the health check launches its in-place
\* recovery (reinitializeVideo) only a bounded number of consecutive times, fewer
\* than the cap explored here, before a full re-acquisition (restartStream).
C15_InPlaceRecoveryBounded == hist.inPlace < MaxInPlace


\* a Start Exam click went through in this step: initialize was called and requested the camera
StartAttempted ==
  /\ Len(tasks') = Len(tasks) + 1
  /\ tasks'[Len(tasks')].fn = "initialize"

\* C16: while the result store says the student has taken the exam, no start attempt
\* goes through: initialize is not called, no camera stream is requested and the
\* session does not become InProgress.
C16_TakenExamNotStarted ==
  [][AlreadyTaken =>
       /\ ~StartAttempted
       /\ ~(~page.examStarted /\ page'.examStarted /\ page'.visit = page.visit)]_vars


\* C17: over any sequence of visits, starts, departures and terminations the
\* session of the student and exam goes from NotStarted to InProgress at most once.
C17_StartedAtMostOnce == hist.starts <= 1


\* the service has been stopped and no initialize call has been made since
Stopped == stopDone /\ ~ps.active /\ ~InitializeInFlight

\* C18: once the service is stopped, no later event changes the violation log or
\* invokes the violation callback.
C18_StoppedLogFrozen ==
  [][(Stopped /\ Stopped') =>
       /\ ps'.violationEvents = ps.violationEvents
       /\ hist'.delivered = hist.delivered]_vars


\* C19: getViolations returns the events in the order recordViolation was called
\* since the last initialize, none dropped, merged or reordered, and the callback
\* received them in the same order.
C19_LogInRecordingOrder ==
  /\ getViolations(ps) = hist.recorded
  /\ hist.delivered = hist.recorded

\* two events of different types are in the log and were delivered
C19_Witness ==
  /\ Len(getViolations(ps)) = 2
  /\ getViolations(ps)[1] # getViolations(ps)[2]
  /\ Len(hist.delivered) = 2

\* C20: every recordViolation appends exactly one event and invokes the callback
\* exactly once, so the number of callback invocations since initialize equals
\* the length of the log: nothing is batched or deduplicated.
C20_OneEventOneCallback ==
  [][/\ Len(hist'.delivered) = Len(ps'.violationEvents)
     /\ (Len(hist'.recorded) = Len(hist.recorded) + 1 =>
           /\ Len(ps'.violationEvents) = Len(ps.violationEvents) + 1
           /\ Len(hist'.delivered) = Len(hist.delivered) + 1)]_vars

\* the same type was recorded twice in a row and both events are in the log
C20_Witness ==
  /\ Len(hist.recorded) = 2
  /\ hist.recorded[1] = hist.recorded[2]
  /\ Len(ps.violationEvents) = 2


\* C21: whichever trigger ends the exam, the violations list of the persisted
\* result equals the service's log at that moment: every recorded event once,
\* in recording order.
C21_ResultCarriesLog ==
  [][Len(results') = Len(results) + 1 =>
       results'[Len(results')].violations = getViolations(ps)]_vars


\* C22: while the service is active a transition of the document to hidden
\* appends exactly one 'tab_switch' event and a window blur exactly one
\* 'browser_minimize' event; while it is not active they append nothing.
C22_FocusLossRecordedWhileActive ==
  /\ ps.active =>
       /\ getViolations(visibilityChangeHandler(ps, TRUE))
            = Append(getViolations(ps), "tab_switch")
       /\ getViolations(blurHandler(ps)) = Append(getViolations(ps), "browser_minimize")
  /\ ~ps.active =>
       /\ visibilityChangeHandler(ps, TRUE) = ps
       /\ blurHandler(ps) = ps

\* the document was hidden and the window blurred while the service was active
C22_Witness ==
  /\ ps.active
  /\ getViolations(ps) = << "tab_switch", "browser_minimize" >>

\* C23: a window focus event, or a visibilitychange event with the document
\* visible, never appends to the violation log and never invokes the callback,
\* whether or not the service is active.
C23_FocusGainNotRecorded ==
  [][/\ focusHandler(ps) = ps
     /\ visibilityChangeHandler(ps, FALSE) = ps
     /\ hist'.observed # hist.observed =>
          /\ getViolations(ps') = getViolations(ps)
          /\ hist'.delivered = hist.delivered
          /\ page' = page]_vars

\* both events were handled during an exam that is still in progress and unflagged
C23_Witness ==
  /\ hist.observed = {"focus", "visible"}
  /\ ps.active /\ page.examStarted /\ ~page.examFailed
  /\ getViolations(ps) = << >>


\* C24: an answer change has effect only while the session is in progress: once
\* the failure is flagged or a result is persisted, the answers map of the
\* mounted page no longer changes.
C24_AnswersFrozenAfterEnd ==
  [][(/\ page.mounted /\ page'.mounted
      /\ (page.examFailed \/ results # << >>)) =>
       page'.answers = page.answers]_vars


\* C25: remainingTime is timeLimit * 60 when the exam starts, goes down by exactly
\* 1 per countdown tick and only while the exam is started and not failed, never
\* becomes negative and never increases.
C25_CountdownMonotonic ==
  [][/\ page'.remainingTime >= 0
     /\ (~page.examStarted /\ page'.examStarted) =>
          page'.remainingTime = ExamFixture.timeLimit * SecondsPerMinute
     /\ (page.mounted /\ page'.mounted) =>
          /\ page'.remainingTime \in {page.remainingTime, page.remainingTime - 1}
          /\ page'.remainingTime # page.remainingTime =>
               (page.examStarted /\ ~page.examFailed)]_vars

\* the countdown ran for a while and then stood still on a failed exam
C25_Witness ==
  /\ page.mounted /\ page.examStarted /\ page.examFailed
  /\ page.remainingTime > 0
  /\ page.remainingTime < ExamFixture.timeLimit * SecondsPerMinute
  /\ ~timer.on


\* C26: the first violation stops the monitoring as part of the failure
\* transition, so no second violation is recorded or delivered for the session.
C26_NoSecondViolation ==
  /\ Len(hist.recorded) <= 1
  /\ Len(hist.delivered) <= 1


\* C27: after a manual submission ended the exam the countdown is cancelled:
\* remainingTime no longer changes and the countdown no longer triggers
\* handleExamEnd.
C27_SubmitCancelsCountdown ==
  [][(/\ \E k \in DOMAIN results : results[k].trigger = "submit"
      /\ page.mounted /\ page'.mounted) =>
       /\ page'.remainingTime = page.remainingTime
       /\ (Len(results') > Len(results) =>
             results'[Len(results')].trigger # "countdown")]_vars


\* C28: a failed start attempt tells the caller which precondition failed: two
\* initialize calls that fail for different reasons (camera request rejected,
\* detector model unavailable) resolve to different values.
C28_FailureCauseReported ==
  [][(/\ initOutcome'.result = "false"
      /\ hist.failure.cause \notin {"none", initOutcome'.cause}) =>
       initOutcome'.result # hist.failure.value]_vars


\* a detection tick ended without recording anything
DetectionEndedQuietly ==
  /\ \E i \in DOMAIN tasks : tasks[i].fn = "startDetection" /\ tasks' = RemoveAt(tasks, i)
  /\ hist'.recorded = hist.recorded

\* C29: a detection tick whose estimateFaces rejects records no violation and
\* leaves the service as it was: active, its schedules installed, the countdown
\* running, so that the next tick runs.
C29_DetectionErrorSkipsTick ==
  [][DetectionEndedQuietly =>
       /\ ps' = ps
       /\ page' = page
       /\ timer' = timer
       /\ pendingEnd' = pendingEnd
       /\ hist'.delivered = hist.delivered]_vars

\* estimateFaces rejected during a running exam, and the next tick is under way
C29_Witness ==
  /\ "detection_error" \in hist.observed
  /\ ps.active /\ ps.liveDetects > 0 /\ ps.liveChecks > 0
  /\ page.examStarted /\ ~page.examFailed /\ timer.on
  /\ getViolations(ps) = << >>
  /\ \E i \in DOMAIN tasks : tasks[i].fn = "startDetection"


\* the events a step appended to the violation log
Appended(events) == getViolations(ps') = getViolations(ps) \o events

\* C30: the signal a model-detection tick records is determined by the face
\* count: no face, exactly one 'looking_away' event; more than one face, exactly
\* one 'multiple_people' event; one face, one 'looking_away' event if and only if
\* the estimated head rotation exceeds 30 degrees, otherwise no event.
C30_DetectionPolicy ==
  [][initOutcome'.detected # NoDetection =>
       LET d == initOutcome'.detected
       IN  /\ d.faces = 0 => Appended(<< "looking_away" >>)
           /\ d.faces > 1 => Appended(<< "multiple_people" >>)
           /\ (d.faces = 1 /\ d.rotation > 30) => Appended(<< "looking_away" >>)
           /\ (d.faces = 1 /\ d.rotation <= 30) => Appended(<< >>)]_vars

\* one face turned by exactly 30 degrees was found, and nothing is in the log
C30_Witness ==
  /\ initOutcome.detected = [faces |-> 1, rotation |-> 30]
  /\ ps.active
  /\ getViolations(ps) = << >>


\* C31: no detection records a violation before the sink is producing frames
\* (video playing, with non-zero dimensions).
C31_AnalysisOnlyOnFrames == initOutcome.frames # "stalled"


QuestionIndexes == 0 .. (Len(ExamFixture.questions) - 1)

\* C32: currentQuestionIndex stays within 0 .. questions.length - 1 under any
\* sequence of goToNextQuestion / goToPreviousQuestion, and a move between
\* questions changes neither the session status, the answers, the remaining
\* time nor the violation log.
C32_NavigationBounded ==
  [][/\ page'.currentQuestionIndex \in QuestionIndexes
     /\ NextIndex(page'.currentQuestionIndex) \in QuestionIndexes
     /\ PreviousIndex(page'.currentQuestionIndex) \in QuestionIndexes
     /\ (/\ page.mounted /\ page'.mounted
         /\ page'.currentQuestionIndex # page.currentQuestionIndex) =>
          /\ page'.examStarted = page.examStarted
          /\ page'.examFailed = page.examFailed
          /\ page'.answers = page.answers
          /\ page'.remainingTime = page.remainingTime
          /\ results' = results
          /\ getViolations(ps') = getViolations(ps)]_vars

\* the student went to the last question and back to the first during the exam
C32_Witness ==
  /\ page.mounted /\ page.examStarted
  /\ page.currentQuestionIndex = 0
  /\ page.answers["q2"] # NoAnswer
  /\ page.remainingTime < ExamFixture.timeLimit * SecondsPerMinute


\* C33: the list getViolations() returns is a copy: adding, removing or replacing
\* elements of a returned list never changes what later getViolations() calls
\* return.
C33_ReturnedListIsCopy ==
  [][(/\ ~held.none
      /\ HeldItems' # HeldItems
      /\ hist'.recorded = hist.recorded) =>
       getViolations(ps') = getViolations(ps)]_vars

\* the caller changed a returned list and the log still holds what was recorded
C33_Witness ==
  /\ "list_mutated" \in hist.observed
  /\ ~held.none
  /\ getViolations(ps) = << "tab_switch" >>
  /\ held.items = << "mobile_detected", "mobile_detected" >>


\* C34: in the model-backed service the detection schedule is installed whenever
\* the service is active, also after the first play() failed during initialize
\* and after a recovery restarted the stream.
C34_ActiveKeepsDetecting ==
  (variant = "model" /\ ps.active) => (ps.detectionIntervalId /\ ps.liveDetects > 0)


\* C35: with the countdown and the scheduled timeouts firing, every session that
\* becomes InProgress eventually has a result persisted.
C35_StartedEventuallyPersisted == page.examStarted ~> (results # << >>)


\* C36: hasStudentTakenExam(s, e) is true exactly when the result store holds a
\* result with that studentId and examId, and once it is true it stays true after
\* any further ExamService operation.
C36_TakenIffStoredAndStays ==
  [][\A s \in Students, e \in ExamIds :
       /\ hasStudentTakenExam(results', s, e) <=>
            \E k \in DOMAIN results' :
              results'[k].studentId = s /\ results'[k].examId = e
       /\ hasStudentTakenExam(results, s, e) => hasStudentTakenExam(results', s, e)]_vars

\* a failed result of s1 for exam 1 is stored, a later save for another student
\* followed, and the exam store no longer (or not yet) holds exam 1
C36_Witness ==
  /\ Len(results) = 2
  /\ results[1].status = "failed"
  /\ results[1].studentId = "s1" /\ results[1].examId = "1"
  /\ results[2].studentId = "s2" /\ results[2].examId = "1"
  /\ getExamById(exams, "1") = Null
  /\ Len(exams) = 1
  /\ ~hasStudentTakenExam(results, "s1", "2")

\* the record most recently added to a store that has just grown by one
Created(before, after) == after[Len(after)]

\* C38: every exam created by createExam and every result created by
\* saveExamResult gets an id no record of its store has, so looking the id up
\* yields the record just created, also for two creations at one clock reading.
C38_NewIdsDistinct ==
  [][/\ Len(exams') = Len(exams) + 1 =>
          /\ \A k \in DOMAIN exams : exams[k].id # Created(exams, exams').id
          /\ getExamById(exams', Created(exams, exams').id) = Created(exams, exams')
     /\ Len(results') = Len(results) + 1 =>
          /\ \A k \in DOMAIN results : results[k].id # Created(results, results').id
          /\ getResultById(results', Created(results, results').id)
               = Created(results, results')]_vars


\* C37: the violations of a persisted result are only events recorded during the
\* session that ends: initialize() emptied the log, so every event of the result
\* was recorded since the last initialize call, and none comes from an earlier
\* session of the singleton.
C37_ResultOnlyOwnSession ==
  [][Len(results') = Len(results) + 1 =>
       \A k \in DOMAIN Created(results, results').violations :
         \E j \in DOMAIN hist.recorded :
           hist.recorded[j] = Created(results, results').violations[k]]_vars

====
